---------------------------- MODULE Spec2Model ----------------------------
(***************************************************************************)
(* The economic interaction engine of the Marx-Crisis-Model repository:    *)
(* the multi-firm engine of simulate.py and the single-firm engines of     *)
(* Agents_perfect.py, Agents_period.py and Agents.py.                      *)
(*                                                                         *)
(* One variable `engine` says which file's classes are running; it never   *)
(* changes.  The object fields of the four files share the variables       *)
(* below (a field a file does not have keeps its initial value).           *)
(*                                                                         *)
(* Numbers.  Python floats are kept in fixed point, truncated:             *)
(*   money (wealth, wage, prices, debt, firm wealth): hundredths;          *)
(*   inventory: hundredths of a unit (Agents_period.py multiplies it by    *)
(*   0.01).  Comparisons that the code makes between ratios of integers    *)
(*   and the 1e-5 epsilon are decided exactly, by cross-multiplication.    *)
(*                                                                         *)
(* Exceptions.  A raise ends the handler it happens in with the            *)
(* assignments made so far kept, and is recorded in `error`.  In           *)
(* simulate.py it propagates out of CrisisModel.step, so the rest of the   *)
(* day is skipped and schedule.steps is not advanced; the model lets the   *)
(* caller call CrisisModel.step again.                                     *)
(***************************************************************************)
EXTENDS Integers, Sequences, FiniteSets, TLC

\* ------------------------------------------------------------- bounds
NumWorkers == 4
\* last day (value of schedule.steps) that is simulated, per engine
MaxDaySim == 31
MaxDayPeriod == 31
MaxDayPerfect == 60
MaxDayAgents == 480
\* the random draws are explored on the days before RandomDays; from then
\* on every draw is its most likely (mean, or lowest) value
RandomDays == 1
\* days simulated for the matching scenario of the single-firm engines
MatchingDays == 2

\* ---------------------------------------------------------- constants
Scale == 10 * 10
FOOD == 0
LIGHT_INDUSTRY == 1
HEAVY_INDUSTRY == 2
ProductType == {FOOD, LIGHT_INDUSTRY, HEAVY_INDUSTRY}
None == -1

VARIABLES
    engine,            \* "simulate" | "perfect" | "period" | "agents"
    num_workers,       \* the worker count N the model was constructed with
    steps,             \* model.schedule.steps
    pc,                \* position inside the day: [ph, i]
    error,             \* exception raised by the latest handler, or "none"
    phases,            \* the handlers run so far by the current day, in order
    \* Worker fields, one entry per worker
    home_pos, living, wealth, employed, factory, health, hunger, happiness,
    last_consumption, consumption_cycle,
    \* Factory fields, one entry per factory
    wage, production, inventory, workers, hiring, debt, bankrupt,
    last_month_sales, job_offer, f_wealth, monthly_production,
    last_monthly_production,
    \* Market fields
    prices, demand, monthly_sales, daily_sales, m_last_month_sales,
    last_daily_sales,
    \* Government fields; interventions: the days on which intervene
    \* applied its effects (history, for the cooldown property)
    last_intervention, interventions

cvars == <<engine, num_workers, steps, pc, error, phases>>
wvars == <<home_pos, living, wealth, employed, factory, health, hunger,
           happiness, last_consumption, consumption_cycle>>
fvars == <<wage, production, inventory, workers, hiring, debt, bankrupt,
           last_month_sales, job_offer, f_wealth, monthly_production,
           last_monthly_production>>
mvars == <<prices, demand, monthly_sales, daily_sales, m_last_month_sales,
           last_daily_sales>>
gvars == <<last_intervention, interventions>>
vars == <<cvars, wvars, fvars, mvars, gvars>>

\* model.workers = list(range(N)), then one Worker per index: no worker at
\* all for N <= 0
Workers == 1 .. num_workers

\* ------------------------------------------------------------ helpers
Abs(x) == IF x < 0 THEN -x ELSE x
Min(a, b) == IF a < b THEN a ELSE b
Max(a, b) == IF a > b THEN a ELSE b
Clip(x, lo, hi) == Max(lo, Min(hi, x))
InSeq(s, x) == \E k \in 1 .. Len(s) : s[k] = x
Count(s, x) == Cardinality({k \in 1 .. Len(s) : s[k] = x})
FirstIndex(s, x) == CHOOSE k \in 1 .. Len(s) : s[k] = x /\ \A j \in 1 .. (k - 1) : s[j] # x
\* list.remove(x): drops the first occurrence (the caller checks InSeq)
Remove(s, x) == [k \in 1 .. (Len(s) - 1) |-> IF k < FirstIndex(s, x) THEN s[k] ELSE s[k + 1]]
\* list.pop() n times: drops the last n entries
PopN(s, n) == SubSeq(s, 1, Len(s) - n)
Factories == DOMAIN workers
At(ph, i) == pc = [ph |-> ph, i |-> i]
IsMatchingDay == steps % 30 = 0
\* days on which the random draws are explored
RandomDay == steps < RandomDays

\* get_distance: Manhattan distance
get_distance(pos1, pos2) == Abs(pos1[1] - pos2[1]) + Abs(pos1[2] - pos2[2])

\* =====================================================================
\* simulate.py: three factories, one per ProductType, and NumWorkers
\* workers, stepped by mesa's SimultaneousActivation in the order they
\* were added: the factories, the workers, the government.
\* =====================================================================
SimFactories == ProductType
\* CrisisModel.__init__: pos = ((i + 1) * 5, 10)
FactoryPos(f) == <<(f + 1) * 5, 10>>
\* Worker cells: cells the constructor's randrange can draw (a worker
\* never shares a cell with a factory or with another worker); worker w in
\* column w of row 9
WorkerCell(w) == <<w, 9>>
\* Scenario inputs, set on the constructed objects: the first worker's
\* health (100 at construction; 3 after 33 days of more than 12 hours) and
\* the FOOD firm's debt (0 at construction)
HealthInit == {100, 3}
DebtInit == {0, 1600 * Scale}
\* the solvency scenario, set on the constructed FOOD firm: production 10
\* (100 at construction) and a debt of 31 times the production
ProductionScenario == 10
FirmInit ==
    {[production |-> 100, debt |-> d] : d \in DebtInit}
        \cup {[production |-> ProductionScenario,
               debt |-> 31 * ProductionScenario * Scale]}
\* consumption_cycle[HEAVY_INDUSTRY] = np.random.randint(30, 90)
HeavyCycleInit == {30}
\* np.random.normal(base_hours, 1) clipped to [0, 16]: the mean, and on the
\* explored days also a draw above 12 hours
Durations(base) == IF RandomDay THEN {base, 13} ELSE {base}

\* the N of CrisisModel(N): the bound, and an invalid (negative) count
InvalidWorkers == 0 - 1
WorkersInit == {NumWorkers, InvalidWorkers}

\* scenario_firm is the factory the scenario values of firms are set on,
\* wage0 the wage of the factories (15 as constructed), wealth0 the wealth
\* of the workers (1000 as constructed)
InitSimWith(scenario_firm, firms, wage0, wealth0) ==
    /\ engine = "simulate"
    /\ num_workers \in WorkersInit
    /\ steps = 0
    /\ pc = [ph |-> "begin", i |-> 0]
    /\ error = "none"
    /\ phases = <<>>
    /\ home_pos = [w \in Workers |-> WorkerCell(w)]
    /\ living = [w \in Workers |-> TRUE]
    /\ wealth = [w \in Workers |-> wealth0]
    /\ employed = [w \in Workers |-> FALSE]
    /\ factory = [w \in Workers |-> None]
    /\ \E h \in HealthInit :
         health = [w \in Workers |-> IF w = 1 THEN h ELSE 100]
    /\ hunger = [w \in Workers |-> 0]
    /\ happiness = [w \in Workers |-> 50]
    /\ last_consumption = [w \in Workers |-> [p \in ProductType |-> 0]]
    /\ \E c \in HeavyCycleInit :
         consumption_cycle = [w \in Workers |->
             [p \in ProductType |-> IF p = FOOD THEN 1
                                    ELSE IF p = LIGHT_INDUSTRY THEN 2 ELSE c]]
    /\ wage = [f \in SimFactories |-> wage0]
    /\ \E firm \in firms :
         /\ production = [f \in SimFactories |->
                             IF f = scenario_firm THEN firm.production ELSE 100]
         /\ debt = [f \in SimFactories |-> IF f = scenario_firm THEN firm.debt ELSE 0]
    /\ inventory = [f \in SimFactories |-> 100 * Scale]
    /\ workers = [f \in SimFactories |-> <<>>]
    /\ hiring = [f \in SimFactories |-> TRUE]
    /\ bankrupt = [f \in SimFactories |-> FALSE]
    /\ last_month_sales = [f \in SimFactories |-> 100]
    /\ job_offer = [f \in SimFactories |-> 3]
    /\ f_wealth = [f \in SimFactories |-> 0]
    /\ monthly_production = [f \in SimFactories |-> 0]
    /\ last_monthly_production = [f \in SimFactories |-> 0]
    /\ prices = [p \in ProductType |->
                   IF p = FOOD THEN 10 * Scale
                   ELSE IF p = LIGHT_INDUSTRY THEN 50 * Scale ELSE 100 * Scale]
    /\ demand = [p \in ProductType |-> 0]
    /\ monthly_sales = 0
    /\ daily_sales = 0
    /\ m_last_month_sales = 0
    /\ last_daily_sales = 0
    /\ last_intervention = -100
    /\ interventions = <<>>
InitSim == InitSimWith(FOOD, FirmInit, 15 * Scale, 1000 * Scale)
\* the same construction with the scenario values on the heavy-industry
\* factory, the one Government.intervene supports
InitStimulus == InitSimWith(HEAVY_INDUSTRY, FirmInit, 15 * Scale, 1000 * Scale)
\* the heavy-industry factory with its production target set to 0
InitZeroTarget ==
    InitSimWith(HEAVY_INDUSTRY, {[production |-> 0, debt |-> 0]}, 15 * Scale, 1000 * Scale)
\* workers without savings (wealth set to 0) and a FOOD factory of
\* production ProductionScenario, which goes bankrupt in the first days
InitPoor ==
    /\ InitSimWith(FOOD, FirmInit, 15 * Scale, 0)
    /\ num_workers = NumWorkers
    /\ production[FOOD] = ProductionScenario
\* wages set next to the two ends of the band of adjust_production, on
\* the factories as constructed otherwise
WageInit == {49 * Scale, 5 * Scale}
InitWageEdge ==
    \E w0 \in WageInit :
       /\ InitSimWith(FOOD, FirmInit, w0, 1000 * Scale)
       /\ num_workers = NumWorkers
       /\ health[1] = 100
       /\ production[FOOD] = 100
       /\ debt[FOOD] = 0

\* The order of the agents inside schedule.step(), then the rest of
\* CrisisModel.step
SimAfter(ph, i) ==
    CASE ph = "begin" -> [ph |-> "factory", i |-> 0]
      [] ph = "factory" -> IF i < 2 THEN [ph |-> "factory", i |-> i + 1]
                           ELSE IF num_workers > 0 THEN [ph |-> "choose", i |-> 1]
                           ELSE [ph |-> "gov", i |-> 0]
      [] ph = "choose" -> [ph |-> "work", i |-> i]
      [] ph = "work" -> [ph |-> "consume", i |-> i]
      [] ph = "consume" -> IF i < num_workers THEN [ph |-> "choose", i |-> i + 1]
                           ELSE [ph |-> "gov", i |-> 0]
      [] ph = "gov" -> [ph |-> "end", i |-> 0]
      [] OTHER -> [ph |-> "begin", i |-> 0]

\* the handler at pc returned normally
SimReturn ==
    /\ pc' = SimAfter(pc.ph, pc.i)
    /\ phases' = Append(phases, pc.ph)
    /\ UNCHANGED <<engine, num_workers, steps, error>>
\* the handler at pc raised e: CrisisModel.step is left, the day is not
\* completed and schedule.steps is not advanced
SimRaise(e) ==
    /\ pc' = [ph |-> "begin", i |-> 0]
    /\ error' = e
    /\ phases' = Append(phases, pc.ph)
    /\ UNCHANGED <<engine, num_workers, steps>>

\* CrisisModel.step, up to schedule.step(): the demand counters are reset
SimStepBegin ==
    /\ engine = "simulate"
    /\ At("begin", 0)
    /\ steps <= MaxDaySim
    \* without workers every call ends in Government.intervene's division
    \* by len(model.workers) before the day advances: the first call is
    \* simulated, the repeated ones are not
    /\ (num_workers > 0 \/ error = "none")
    /\ demand' = [p \in ProductType |-> 0]
    /\ pc' = SimAfter("begin", 0)
    /\ error' = "none"
    /\ phases' = <<>>
    /\ UNCHANGED <<engine, num_workers, steps, wvars, fvars, gvars, prices, monthly_sales,
                   daily_sales, m_last_month_sales, last_daily_sales>>

\* Factory.inventory_ratio = inventory / (production * 30 + 1e-5), in
\* hundredths; with production 0 the quotient by 1e-5 is beyond any
\* threshold the code compares it with
inventory_ratio(f) ==
    IF production[f] = 0 THEN (IF inventory[f] = 0 THEN 0 ELSE 1000000)
    ELSE inventory[f] \div (production[f] * 30)

\* a target that is never cut below one unit: the variant C37 is tested
\* against
AdjustedProduction_AtLeastOne(P, S) ==
    Max(1, IF S > P THEN P ELSE IF S <= 0 THEN P \div 2 ELSE (P + S - 1) \div 2)
\* Factory.adjust_production, the new production target:
\* int(production * (0.5 + 0.5 * min(1, last_month_sales / (production + 1e-5))))
\* for integers S = last_month_sales and P = production: S > P gives P;
\* S = 0 gives int(P / 2); otherwise the epsilon makes the product fall just
\* short of (P + S) / 2
AdjustedProduction(P, S) ==
    IF S > P THEN P
    ELSE IF S <= 0 THEN P \div 2
    ELSE (P + S - 1) \div 2

\* Factory.adjust_production, the wage: sold_ratio > 0.8 raises it by 5%,
\* sold_ratio < 0.5 lowers it by 5%
RaisedWage(w, P, S) ==
    IF 5 * S > 4 * P THEN (w * 105) \div 100
    ELSE IF 2 * S <= P THEN (w * 95) \div 100
    ELSE w
\* the adjustment without max(5, min(50, wage)): the variant C32 is
\* tested against
AdjustedWage_Unclamped(w, P, S) == RaisedWage(w, P, S)
\* then the band [5, 50]
AdjustedWage(w, P, S) == Max(5 * Scale, Min(50 * Scale, RaisedWage(w, P, S)))

\* the condition without its second test (a debt above 30 times the
\* production alone would not bankrupt): the variant C15 is tested against
BankruptCondition_InventoryOnly(inv, prod, d) ==
    inv > 60 * prod * Scale /\ d > prod * 15 * Scale
\* the condition without any test of the debt (overstock alone would
\* bankrupt): the variant C34 is tested against
BankruptCondition_OverstockAlone(inv, prod, d) == inv > 60 * prod * Scale
\* the condition without its first test (overstock with a debt between 15
\* and 30 times the production would not bankrupt): the variant C22 is
\* tested against
BankruptCondition_DebtOnly(inv, prod, d) == d > prod * 30 * Scale
\* Factory.check_bankruptcy, the condition, on the values after
\* adjust_production: inventory_ratio > 2.0 is inventory > 60 * production
BankruptCondition(inv, prod, d) ==
    \/ (inv > 60 * prod * Scale /\ d > prod * 15 * Scale)
    \/ d > prod * 30 * Scale

\* Factory.produce without its test of the bankrupt flag (a bankrupt firm
\* would go on producing): the variant C5 is tested against
AfterProduce_Unguarded(inv, P, b) == inv + P * Scale
\* Factory.produce, the inventory after the call: a bankrupt firm returns
\* at once
AfterProduce(inv, P, b) == IF b THEN inv ELSE inv + P * Scale

\* Factory.step: adjust_production(); check_bankruptcy(); produce()
SimFactoryStep(f) ==
    /\ engine = "simulate"
    /\ At("factory", f)
    /\ LET S == last_month_sales[f]
           P == production[f]
           newP == IF IsMatchingDay THEN AdjustedProduction(P, S) ELSE P
           newW == IF IsMatchingDay THEN AdjustedWage(wage[f], P, S) ELSE wage[f]
           grows == IsMatchingDay /\ debt[f] > newP * 10 * Scale
       \* random.random() < 0.1: the loan is granted or not
       IN \E loan \in (IF grows /\ RandomDay THEN BOOLEAN ELSE {FALSE}) :
            LET d1 == IF grows THEN (debt[f] * 105) \div 100 ELSE debt[f]
                newD == IF loan THEN (d1 * 9) \div 10 ELSE d1
                goes == ~bankrupt[f] /\ BankruptCondition(inventory[f], newP, newD)
                nowB == bankrupt[f] \/ goes
            IN /\ production' = [production EXCEPT ![f] = newP]
               /\ wage' = [wage EXCEPT ![f] = newW]
               /\ debt' = [debt EXCEPT ![f] = newD]
               /\ bankrupt' = [bankrupt EXCEPT ![f] = nowB]
               \* check_bankruptcy: every worker of the roster is expelled
               /\ workers' = IF goes THEN [workers EXCEPT ![f] = <<>>] ELSE workers
               /\ employed' = IF goes
                              THEN [w \in Workers |->
                                      IF InSeq(workers[f], w) THEN FALSE ELSE employed[w]]
                              ELSE employed
               \* produce
               /\ inventory' = [inventory EXCEPT ![f] = AfterProduce(@, newP, nowB)]
               /\ last_month_sales' = IF nowB THEN last_month_sales
                                      ELSE [last_month_sales EXCEPT ![f] = Max(0, @)]
    /\ SimReturn
    /\ UNCHANGED <<home_pos, living, wealth, factory, health, hunger, happiness,
                   last_consumption, consumption_cycle, hiring, job_offer, f_wealth,
                   monthly_production, last_monthly_production, mvars, gvars>>


\* Worker.choose_factory: the hiring, solvent factories, in the order of
\* model.factories
Candidates == SelectSeq(<<FOOD, LIGHT_INDUSTRY, HEAVY_INDUSTRY>>,
                        LAMBDA f : ~bankrupt[f] /\ hiring[f])
MaxDistance(w, fs) ==
    CHOOSE m \in {get_distance(home_pos[w], FactoryPos(fs[k])) : k \in 1 .. Len(fs)} :
        \A k \in 1 .. Len(fs) : get_distance(home_pos[w], FactoryPos(fs[k])) <= m
\* (wage * (1 - d / max_dist)) * (1 - inventory_ratio), times max_dist (the
\* same positive factor for every candidate of one call); the ratio is in
\* hundredths and counts as 100 from there on
Score(w, f, max_dist) ==
    (wage[f] * (max_dist - get_distance(home_pos[w], FactoryPos(f))))
        * (100 - Min(inventory_ratio(f), 10000))
\* np.argmax: the first index of the maximum
ArgMax(w, fs) ==
    LET m == MaxDistance(w, fs)
    IN CHOOSE k \in 1 .. Len(fs) :
         /\ \A j \in 1 .. Len(fs) : Score(w, fs[j], m) <= Score(w, fs[k], m)
         /\ \A j \in 1 .. (k - 1) : Score(w, fs[j], m) < Score(w, fs[k], m)
NewFactory(w) == Candidates[ArgMax(w, Candidates)]

\* the first test of choose_factory without `not self.living` (a dead
\* worker would look for a job): the variant C6 is tested against
SkipsMatching_IgnoringDeath(w) == ~IsMatchingDay
\* the first test of choose_factory with day 0 skipped too (the first
\* matching on day 30): the variant C35 is tested against
SkipsMatching_OnDayZero(w) == steps = 0 \/ ~IsMatchingDay \/ ~living[w]
\* Worker.choose_factory, the first test: nothing happens off a matching
\* day or for a dead worker
SkipsMatching(w) == ~IsMatchingDay \/ ~living[w]

\* a switch that appends to the new roster and leaves the old one alone:
\* the variant C10 is tested against
SwitchRosters_KeepingOld(w, old, new) ==
    [f \in Factories |-> IF f = new THEN Append(workers[f], w) ELSE workers[f]]
\* Worker.choose_factory, the rosters after a switch of w from old (or
\* None) to new: old_factory.workers.remove(self);
\* new_factory.workers.append(self)
SwitchRosters(w, old, new) ==
    [f \in Factories |->
        IF f = new THEN Append(workers[f], w)
        ELSE IF f = old THEN Remove(workers[f], w)
        ELSE workers[f]]

\* Worker.choose_factory
SimChooseFactory(w) ==
    /\ engine = "simulate"
    /\ At("choose", w)
    /\ IF SkipsMatching(w)
       THEN SimReturn /\ UNCHANGED <<employed, factory, workers>>
       ELSE IF Candidates = <<>>
       THEN /\ employed' = [employed EXCEPT ![w] =
                              IF @ /\ factory[w] \in Factories /\ bankrupt[factory[w]]
                              THEN FALSE ELSE @]
            /\ SimReturn
            /\ UNCHANGED <<factory, workers>>
       ELSE IF MaxDistance(w, Candidates) = 0
       THEN SimRaise("ZeroDivisionError") /\ UNCHANGED <<employed, factory, workers>>
       ELSE IF NewFactory(w) = factory[w]
       THEN SimReturn /\ UNCHANGED <<employed, factory, workers>>
       ELSE LET new == NewFactory(w)
                old == factory[w]
            IN /\ factory' = [factory EXCEPT ![w] = new]
               /\ employed' = [employed EXCEPT ![w] = TRUE]
               /\ IF old # None /\ ~InSeq(workers[old], w)
                  THEN \* old_factory.workers.remove(self) raises
                       SimRaise("ValueError") /\ UNCHANGED workers
                  ELSE /\ workers' = SwitchRosters(w, old, new)
                       /\ SimReturn
    /\ UNCHANGED <<home_pos, living, wealth, health, hunger, happiness,
                   last_consumption, consumption_cycle, wage, production, inventory,
                   hiring, debt, bankrupt, last_month_sales, job_offer, f_wealth,
                   monthly_production, last_monthly_production, mvars, gvars>>

\* Worker.work, the mean of the drawn hours, in whole hours
base_hours(w) ==
    LET b == IF wealth[w] < 500 * Scale
             THEN Clip(16 - (wealth[w] \div (100 * Scale)), 6, 16)
             ELSE 6
    IN IF health[w] < 50 THEN Min(8, b) ELSE b

\* Worker.work
SimWork(w) ==
    /\ engine = "simulate"
    /\ At("work", w)
    /\ hunger' = [hunger EXCEPT ![w] = @ + 1]
    /\ IF ~employed[w] \/ ~living[w]
       THEN SimReturn /\ UNCHANGED <<wealth, health, living, employed, workers>>
       ELSE \E work_duration \in Durations(base_hours(w)) :
            LET income == work_duration * wage[factory[w]]
                h == Clip(IF work_duration > 12 THEN health[w] - 3
                          ELSE IF work_duration < 8 THEN health[w] + 1
                          ELSE health[w], 0, 100)
                earned == wealth[w] + income
                paid == IF h < 20 /\ earned > 5 * Scale THEN earned - 5 * Scale ELSE earned
            IN /\ wealth' = [wealth EXCEPT ![w] = paid]
               /\ health' = [health EXCEPT ![w] = h]
               /\ IF h <= 0
                  THEN /\ living' = [living EXCEPT ![w] = FALSE]
                       /\ employed' = [employed EXCEPT ![w] = FALSE]
                       /\ IF InSeq(workers[factory[w]], w)
                          THEN /\ workers' = [workers EXCEPT ![factory[w]] = Remove(@, w)]
                               /\ SimReturn
                          ELSE SimRaise("ValueError") /\ UNCHANGED workers
                  ELSE SimReturn /\ UNCHANGED <<living, employed, workers>>
    /\ UNCHANGED <<home_pos, factory, happiness, last_consumption, consumption_cycle,
                   wage, production, inventory, hiring, debt, bankrupt,
                   last_month_sales, job_offer, f_wealth, monthly_production,
                   last_monthly_production, mvars, gvars>>


\* Worker.consume: the first non-food product that is due and affordable
\* (for product in ProductType, FOOD skipped), given the wealth left after
\* the food purchase; None when there is none
DueProduct(w, left) ==
    LET due(p) == /\ ~((steps - last_consumption[w][p]) < consumption_cycle[w][p])
                  /\ ~(left - prices[p] < prices[FOOD] * 7)
    IN IF due(LIGHT_INDUSTRY) THEN LIGHT_INDUSTRY
       ELSE IF due(HEAVY_INDUSTRY) THEN HEAVY_INDUSTRY
       ELSE None

\* a food purchase made whatever the wealth: the variant C36 is tested
\* against
AffordsFood_Always(w) == TRUE
\* Worker.consume, the test of the food purchase
AffordsFood(w) == wealth[w] - prices[FOOD] >= 0

\* Worker.consume.  Market.sell only counts the demand.  A non-food
\* purchase ends in `self.happiness += 25 * product`, which raises
\* TypeError (ProductType is a plain Enum) after the purchase is booked.
SimConsume(w) ==
    /\ engine = "simulate"
    /\ At("consume", w)
    /\ IF ~living[w]
       THEN SimReturn /\ UNCHANGED <<wealth, hunger, happiness, last_consumption, demand>>
       ELSE IF hunger[w] > 0 /\ ~AffordsFood(w)
       THEN SimReturn /\ UNCHANGED <<wealth, hunger, happiness, last_consumption, demand>>
       ELSE LET eats == hunger[w] > 0
                left == IF eats THEN wealth[w] - prices[FOOD] ELSE wealth[w]
                p == DueProduct(w, left)
            IN /\ hunger' = [hunger EXCEPT ![w] = IF eats THEN @ - 1 ELSE @]
               /\ happiness' = [happiness EXCEPT ![w] = IF eats THEN @ + 5 ELSE @]
               /\ wealth' = [wealth EXCEPT ![w] = IF p = None THEN left ELSE left - prices[p]]
               /\ last_consumption' = [last_consumption EXCEPT ![w] =
                      [q \in ProductType |->
                          IF (q = FOOD /\ eats) \/ q = p THEN steps ELSE @[q]]]
               /\ demand' = [q \in ProductType |->
                      demand[q] + (IF q = FOOD /\ eats THEN 1 ELSE 0)
                                + (IF q = p THEN 1 ELSE 0)]
               /\ IF p = None THEN SimReturn ELSE SimRaise("TypeError")
    /\ UNCHANGED <<home_pos, living, employed, factory, health, consumption_cycle,
                   fvars, prices, monthly_sales, daily_sales, m_last_month_sales,
                   last_daily_sales, gvars>>

\* Government.intervene, the crisis test: unemployment > 0.2 and
\* avg_inventory > 1.5, the average being the sum over the solvent
\* factories divided by 3
Unemployed == Cardinality({w \in Workers : ~employed[w]})
SumInventoryRatio(fs) ==
    LET r(f) == IF f \in fs /\ ~bankrupt[f] THEN inventory_ratio(f) ELSE 0
    IN r(FOOD) + r(LIGHT_INDUSTRY) + r(HEAVY_INDUSTRY)
\* a crisis test that one signal satisfies (crisis_level >= 1): the
\* variant C30 is tested against
Crisis_Either == 5 * Unemployed > Cardinality(Workers) \/ SumInventoryRatio(Factories) > 450
Crisis == 5 * Unemployed > Cardinality(Workers) /\ SumInventoryRatio(Factories) > 450
\* the cooldown test of Government.intervene
CoolingDown == steps - last_intervention < 60

\* Government.intervene, the factories it supports:
\* product_type == HEAVY_INDUSTRY and not bankrupt
Strategic_AnySolvent(f) == ~bankrupt[f]
Strategic(f) == f = HEAVY_INDUSTRY /\ ~bankrupt[f]

\* Government.step = intervene
SimGovStep ==
    /\ engine = "simulate"
    /\ At("gov", 0)
    /\ IF CoolingDown
       THEN SimReturn /\ UNCHANGED <<gvars, wealth, debt, production>>
       ELSE IF Cardinality(Workers) = 0
       THEN SimRaise("ZeroDivisionError") /\ UNCHANGED <<gvars, wealth, debt, production>>
       ELSE IF ~Crisis
       THEN SimReturn /\ UNCHANGED <<gvars, wealth, debt, production>>
       ELSE /\ last_intervention' = steps
            /\ interventions' = Append(interventions, steps)
            /\ wealth' = [w \in Workers |-> wealth[w] + 500 * Scale]
            /\ debt' = [f \in Factories |->
                          IF Strategic(f)
                          THEN (debt[f] * 7) \div 10 ELSE debt[f]]
            /\ production' = [f \in Factories |->
                          IF Strategic(f)
                          THEN (production[f] * 12) \div 10 ELSE production[f]]
            /\ SimReturn
    /\ UNCHANGED <<home_pos, living, employed, factory, health, hunger, happiness,
                   last_consumption, consumption_cycle, wage, inventory, workers,
                   hiring, bankrupt, last_month_sales, job_offer, f_wealth,
                   monthly_production, last_monthly_production, mvars>>

\* CrisisModel.step, the settlement: a solvent factory sells
\* min(inventory, demand of its product)
Sold(f) == Min(inventory[f], demand[f] * Scale)
\* Market.update_prices of simulate.py for one product: supply is the
\* inventory of its solvent factories after the settlement
\* the price before the floor; prices * 1.5 is computed on the tens and
\* the units of the price apart (the same value, within the integer range)
SimRawPrice(p, supply, dem) ==
    IF supply = 0 THEN (prices[p] \div 10) * 15 + ((prices[p] % 10) * 15) \div 10
    ELSE (prices[p] * 8) \div 10
         + (prices[p] * 4 * (2 * dem) * Scale) \div (10 * (supply + Scale))
SimNewPrice(p, supply, dem) ==
    LET min_price == IF p = FOOD THEN 5 * Scale
                     ELSE IF p = LIGHT_INDUSTRY THEN 20 * Scale ELSE 50 * Scale
    IN Max(SimRawPrice(p, supply, dem), min_price)

\* The end of schedule.step() (steps += 1) and the rest of
\* CrisisModel.step: settlement, update_prices, print_summary.
\* print_summary reads self.bank, which does not exist: AttributeError,
\* after every update of the day has been made.
SimEndDay ==
    /\ engine = "simulate"
    /\ At("end", 0)
    /\ steps' = steps + 1
    /\ inventory' = [f \in Factories |->
                       IF bankrupt[f] THEN inventory[f] ELSE inventory[f] - Sold(f)]
    /\ last_month_sales' = [f \in Factories |->
                       IF bankrupt[f] THEN last_month_sales[f] ELSE Sold(f) \div Scale]
    /\ prices' = [p \in ProductType |->
                    SimNewPrice(p, IF bankrupt[p] THEN 0 ELSE inventory[p] - Sold(p),
                                demand[p])]
    /\ pc' = [ph |-> "begin", i |-> 0]
    /\ error' = "AttributeError"
    /\ phases' = phases \o <<"settlement", "update_prices", "print_summary">>
    /\ UNCHANGED <<engine, num_workers, wvars, wage, production, workers, hiring, debt, bankrupt,
                   job_offer, f_wealth, monthly_production, last_monthly_production,
                   demand, monthly_sales, daily_sales, m_last_month_sales,
                   last_daily_sales, gvars>>

SimNext ==
    \/ SimStepBegin
    \/ \E f \in SimFactories : SimFactoryStep(f)
    \/ \E w \in Workers : SimChooseFactory(w)
    \/ \E w \in Workers : SimWork(w)
    \/ \E w \in Workers : SimConsume(w)
    \/ SimGovStep
    \/ SimEndDay

SpecSim == InitSim /\ [][SimNext]_vars


\* =====================================================================
\* The single-firm engines (Agents_perfect.py, Agents_period.py,
\* Agents.py): model.factory, model.market and the government.  The class
\* that steps them is not in the repository; the day is the one the
\* specification describes: every Worker.step (choose_factory, work,
\* consume) in turn, then Factory.step, Market.step, Government.step, then
\* the day counter.  An exception ends the agent's step and the day goes
\* on with the next agent.
\* =====================================================================
\* model.factory, the only firm; the market holds the price of its good
Firm == 0
\* random.randint(lo, hi) of Worker.consume: every value on the explored
\* days, the lowest from then on
Needs(lo, hi) == IF RandomDay THEN lo .. hi ELSE {lo}

OneAfter(ph, i) ==
    CASE ph = "choose" -> [ph |-> "work", i |-> i]
      [] ph = "work" -> [ph |-> "consume", i |-> i]
      [] ph = "consume" -> IF i < num_workers THEN [ph |-> "choose", i |-> i + 1]
                           ELSE [ph |-> "factory", i |-> 0]
      [] ph = "factory" -> [ph |-> "market", i |-> 0]
      [] ph = "market" -> [ph |-> "gov", i |-> 0]
      [] ph = "gov" -> [ph |-> "end", i |-> 0]
      [] OTHER -> [ph |-> "choose", i |-> 1]
\* the agent's step that follows the one pc is in
OneAfterAgent(ph, i) ==
    IF ph \in {"choose", "work", "consume"} THEN OneAfter("consume", i)
    ELSE OneAfter(ph, i)
OneReturn == pc' = OneAfter(pc.ph, pc.i) /\ UNCHANGED <<engine, num_workers, steps, error, phases>>
OneRaise(e) == pc' = OneAfterAgent(pc.ph, pc.i) /\ error' = e /\ UNCHANGED <<engine, num_workers, steps, phases>>
MaxDay == IF engine = "perfect" THEN MaxDayPerfect
          ELSE IF engine = "period" THEN MaxDayPeriod
          ELSE MaxDayAgents

\* the end of the day: schedule.steps += 1
OneEndDay ==
    /\ engine # "simulate"
    /\ At("end", 0)
    /\ steps < MaxDay
    /\ steps' = steps + 1
    /\ pc' = OneAfter("end", 0)
    /\ error' = "none"
    /\ UNCHANGED <<engine, num_workers, phases, wvars, fvars, mvars, gvars>>

\* the state after Worker.__init__, Factory.__init__, Market.__init__ and
\* Government.__init__ of a single-firm file; the fields the file does not
\* have are filled with values that never change
InitOne(e, w0, hap, wg, inv, jo, lms, lds, ms) ==
    /\ engine = e
    /\ num_workers = NumWorkers
    /\ steps = 0
    /\ pc = [ph |-> "choose", i |-> 1]
    /\ error = "none"
    /\ phases = <<>>
    /\ home_pos = [w \in Workers |-> WorkerCell(w)]
    /\ living = [w \in Workers |-> TRUE]
    /\ wealth = [w \in Workers |-> w0]
    /\ employed = [w \in Workers |-> FALSE]
    /\ factory = [w \in Workers |-> None]
    /\ health = [w \in Workers |-> 100]
    /\ hunger = [w \in Workers |-> 0]
    /\ happiness = [w \in Workers |-> hap]
    /\ last_consumption = [w \in Workers |-> [p \in {Firm} |-> 0]]
    /\ consumption_cycle = [w \in Workers |-> [p \in {Firm} |-> 1]]
    /\ wage = [f \in {Firm} |-> wg]
    /\ production = [f \in {Firm} |-> 0]
    /\ inventory = [f \in {Firm} |-> inv]
    /\ workers = [f \in {Firm} |-> <<>>]
    /\ hiring = [f \in {Firm} |-> TRUE]
    /\ debt = [f \in {Firm} |-> 0]
    /\ bankrupt = [f \in {Firm} |-> FALSE]
    /\ last_month_sales = [f \in {Firm} |-> 0]
    /\ job_offer = [f \in {Firm} |-> jo]
    /\ f_wealth = [f \in {Firm} |-> 0]
    /\ monthly_production = [f \in {Firm} |-> 0]
    /\ last_monthly_production = [f \in {Firm} |-> 0]
    /\ prices = [p \in {Firm} |-> 20 * Scale]
    /\ demand = [p \in {Firm} |-> 0]
    /\ monthly_sales = ms
    /\ daily_sales = 0
    /\ m_last_month_sales = lms
    /\ last_daily_sales = lds
    /\ last_intervention = 0
    /\ interventions = <<>>

\* Worker.wealth = random.randint(0, 10): the two ends of the range, the
\* same for every worker
WealthInit == {0, 10 * Scale}
\* Factory.job_offer: the constructor's value is given with each engine;
\* 3 is the capacity of the matching scenario of the specification
JobOfferScenario == 3

\* a joining part that leaves the hiring flag alone (the firm would go on
\* hiring past job_offer): the variant C14 is tested against
Join_KeepingHiring(w) ==
    /\ employed' = [employed EXCEPT ![w] = TRUE]
    /\ factory' = [factory EXCEPT ![w] = Firm]
    /\ workers' = [workers EXCEPT ![Firm] = Append(@, w)]
    /\ UNCHANGED hiring
\* Worker.choose_factory of Agents_perfect.py / Agents_period.py, the
\* joining part: employed, factory, the roster and the hiring flag
Join(w) ==
    /\ employed' = [employed EXCEPT ![w] = TRUE]
    /\ factory' = [factory EXCEPT ![w] = Firm]
    /\ workers' = [workers EXCEPT ![Firm] = Append(@, w)]
    /\ hiring' = [hiring EXCEPT ![Firm] = job_offer[Firm] - (Len(workers[Firm]) + 1) > 0]

\* Worker.work of Agents_perfect.py / Agents_period.py: work_duration is 8
\* and the income is one wage
OneWork(w) ==
    /\ engine \in {"perfect", "period"}
    /\ At("work", w)
    /\ IF ~employed[w]
       THEN /\ happiness' = [happiness EXCEPT ![w] = @ + 3]
            /\ UNCHANGED wealth
       ELSE /\ happiness' = [happiness EXCEPT ![w] = @ - 1]
            /\ wealth' = [wealth EXCEPT ![w] = @ + wage[factory[w]]]
    /\ OneReturn
    /\ UNCHANGED <<home_pos, living, employed, factory, health, hunger,
                   last_consumption, consumption_cycle, fvars, mvars, gvars>>

\* Worker.consume of Agents_perfect.py / Agents_period.py; cost is the
\* daily subsistence cost, lo .. hi the range of need, sad_stock and
\* sad_funds what a failed purchase takes from happiness.  A purchase
\* calls Market.sell(need) and then books the same sale a second time on
\* the firm's inventory and wealth and on the market's counters.
OneConsume(w, cost, lo, hi, sad_stock, sad_funds) ==
    /\ At("consume", w)
    /\ \E need \in Needs(lo, hi) :
         LET left == wealth[w] - cost * Scale
             price == prices[Firm]
         IN IF left - price * need >= 0 /\ inventory[Firm] > need * Scale
            THEN /\ wealth' = [wealth EXCEPT ![w] = left - price * need]
                 /\ inventory' = [inventory EXCEPT ![Firm] = (@ - need * Scale) - need * Scale]
                 /\ f_wealth' = [f_wealth EXCEPT ![Firm] = (@ + need * price) + price * need]
                 /\ daily_sales' = (daily_sales + need) + need
                 /\ monthly_sales' = (monthly_sales + need) + need
                 /\ happiness' = [happiness EXCEPT ![w] = @ + 5]
            ELSE /\ wealth' = [wealth EXCEPT ![w] = left]
                 /\ happiness' = [happiness EXCEPT ![w] =
                        IF inventory[Firm] < need * Scale THEN @ - sad_stock
                        ELSE @ - sad_funds]
                 /\ UNCHANGED <<inventory, f_wealth, daily_sales, monthly_sales>>
    /\ OneReturn
    /\ UNCHANGED <<home_pos, living, employed, factory, health, hunger,
                   last_consumption, consumption_cycle, wage, production, workers,
                   hiring, debt, bankrupt, last_month_sales, job_offer,
                   monthly_production, last_monthly_production, prices, demand,
                   m_last_month_sales, last_daily_sales, gvars>>

\* Factory.produce of Agents_perfect.py / Agents_period.py, as a function
\* of the roster, the wage and job_offer at the time of the call:
\* int(0.5 * work_duration) = 4 units per roster entry
Produced(roster) == 4 * Len(roster)
\* a produce without its first test (the fixed cost 5 * job_offer + 100 is
\* paid with nobody on the roster): the variant C26 is tested against
Idle_Never(roster) == FALSE
\* Factory.produce, the first test: `if len(self.workers) == 0: return`
Idle(roster) == Len(roster) = 0
\* a cost without the fixed part (the payroll alone): the variant C27 is
\* tested against
ProduceCost_PayrollOnly(roster, wg, jo) == wg * Len(roster)
ProduceCost(roster, wg, jo) == (5 * jo + 100) * Scale + wg * Len(roster)

\* Market.step of Agents_perfect.py / Agents_period.py after the price
\* update: the daily and, on a matching day, the monthly snapshot
Snapshot ==
    /\ last_daily_sales' = daily_sales
    /\ daily_sales' = 0
    /\ IF IsMatchingDay
       THEN m_last_month_sales' = monthly_sales /\ monthly_sales' = 0
       ELSE UNCHANGED <<m_last_month_sales, monthly_sales>>


\* ------------------------------------------------- Agents_perfect.py
InitPerfect ==
    \E w0 \in WealthInit, jo \in {50, JobOfferScenario} :
        InitOne("perfect", w0, 10, 40 * Scale, 100 * Scale, jo, 3750, 125, 0)

\* the first test of choose_factory without `self.employed` in it (an
\* employed worker would go through the matching every day): the variant
\* C21 is tested against
StaysPut_Never(w) == FALSE
\* Worker.choose_factory of Agents_perfect.py, the first test: an employed
\* worker returns at once off a matching day
StaysPut(w) == ~IsMatchingDay /\ employed[w]

\* Worker.choose_factory of Agents_perfect.py
PerfectChooseFactory(w) ==
    /\ engine = "perfect"
    /\ At("choose", w)
    /\ IF StaysPut(w)
       THEN OneReturn /\ UNCHANGED <<employed, factory, workers, hiring>>
       ELSE IF wealth[w] > 900 * Scale
       THEN \* too rich to work
            IF ~employed[w]
            THEN OneReturn /\ UNCHANGED <<employed, factory, workers, hiring>>
            ELSE /\ employed' = [employed EXCEPT ![w] = FALSE]
                 /\ IF InSeq(workers[factory[w]], w)
                    THEN /\ workers' = [workers EXCEPT ![factory[w]] = Remove(@, w)]
                         /\ OneReturn
                    ELSE OneRaise("ValueError") /\ UNCHANGED workers
                 /\ UNCHANGED <<factory, hiring>>
       ELSE IF ~hiring[Firm]
       THEN OneReturn /\ UNCHANGED <<employed, factory, workers, hiring>>
       ELSE Join(w) /\ OneReturn
    /\ UNCHANGED <<home_pos, living, wealth, health, hunger, happiness,
                   last_consumption, consumption_cycle, wage, production, inventory,
                   debt, bankrupt, last_month_sales, job_offer, f_wealth,
                   monthly_production, last_monthly_production, mvars, gvars>>

PerfectConsume(w) == engine = "perfect" /\ OneConsume(w, 1, 1, 3, 1, 1)

\* Factory.step of Agents_perfect.py: produce() (the call of
\* adjust_production is commented out)
PerfectFactoryStep ==
    /\ engine = "perfect"
    /\ At("factory", 0)
    /\ IF Idle(workers[Firm])
       THEN UNCHANGED <<f_wealth, inventory, monthly_production>>
       ELSE /\ f_wealth' = [f_wealth EXCEPT ![Firm] =
                              @ - ProduceCost(workers[Firm], wage[Firm], job_offer[Firm])]
            /\ inventory' = [inventory EXCEPT ![Firm] = @ + Produced(workers[Firm]) * Scale]
            /\ monthly_production' = [monthly_production EXCEPT ![Firm] =
                                        @ + Produced(workers[Firm])]
    /\ OneReturn
    /\ UNCHANGED <<wvars, wage, production, workers, hiring, debt, bankrupt,
                   last_month_sales, job_offer, last_monthly_production, mvars, gvars>>

\* Market.step of Agents_perfect.py (the call of update_prices is
\* commented out)
PerfectMarketStep ==
    /\ engine = "perfect"
    /\ At("market", 0)
    /\ Snapshot
    /\ OneReturn
    /\ UNCHANGED <<wvars, fvars, prices, demand, gvars>>

\* Government.step of Agents_perfect.py and Agents.py: intervene is the
\* text of simulate.py's.  Past the cooldown test it reads model.factories,
\* f.bankrupt (Agents_perfect.py) or self.production (Agents.py), none of
\* which exists, before it assigns anything.
CopiedGovStep ==
    /\ engine \in {"perfect", "agents"}
    /\ At("gov", 0)
    /\ IF CoolingDown THEN OneReturn ELSE OneRaise("AttributeError")
    /\ UNCHANGED <<wvars, fvars, mvars, gvars>>

PerfectNext ==
    \/ \E w \in Workers : PerfectChooseFactory(w)
    \/ \E w \in Workers : OneWork(w)
    \/ \E w \in Workers : PerfectConsume(w)
    \/ PerfectFactoryStep
    \/ PerfectMarketStep
    \/ CopiedGovStep
    \/ OneEndDay

SpecPerfect == InitPerfect /\ [][PerfectNext]_vars


\* -------------------------------------------------- Agents_period.py
InitPeriod ==
    \E w0 \in WealthInit, jo \in {40, JobOfferScenario} :
        InitOne("period", w0, 50, 15 * Scale, 100 * Scale, jo, 3750, 125, 0)

\* Worker.choose_factory of Agents_period.py
PeriodChooseFactory(w) ==
    /\ engine = "period"
    /\ At("choose", w)
    /\ IF employed[w] \/ ~hiring[Firm]
       THEN UNCHANGED <<employed, factory, workers, hiring>>
       ELSE Join(w)
    /\ OneReturn
    /\ UNCHANGED <<home_pos, living, wealth, health, hunger, happiness,
                   last_consumption, consumption_cycle, wage, production, inventory,
                   debt, bankrupt, last_month_sales, job_offer, f_wealth,
                   monthly_production, last_monthly_production, mvars, gvars>>

PeriodConsume(w) == engine = "period" /\ OneConsume(w, 2, 1, 2, 9, 5)

\* a sold-ratio step that always takes the far-below branch (job_offer
\* falls by two whatever was sold): the variant C24 is tested against
SoldRatioStep_FarBelow(S, P) == 0 - 2
\* Factory.adjust_production of Agents_period.py, the change of job_offer
\* at the sold-ratio step.  adjustment = 0.5 + 0.6 * min(1, S / (P + 1e-5))
\* for the integers S = market.last_month_sales, P = last_monthly_production:
\*   adjustment > 1.05        iff 12 * S > 11 * P
\*   0.7 < adjustment < 0.9   iff P < 3 * S and 3 * S <= 2 * P
\*   adjustment < 0.7         iff 3 * S <= P
\* (adjustment == 1.05 needs S / (P + 1e-5) = 11/12, which no integers give)
SoldRatioStep(S, P) ==
    IF 12 * S > 11 * P THEN 1
    ELSE IF P < 3 * S /\ 3 * S <= 2 * P THEN -1
    ELSE IF 3 * S <= P THEN -2
    ELSE 0

\* the layoff loop: `for _ in range(len(workers) - job_offer): workers.pop()`
\* run when job_offer < len(workers); with a negative job_offer it pops
\* from the emptied roster and raises IndexError
LayoffCount(roster, jo) == IF jo < Len(roster) THEN Len(roster) - jo ELSE 0
LayoffRaises(roster, jo) == LayoffCount(roster, jo) > Len(roster)
\* a layoff that takes the excess workers from the front of the roster:
\* the variant C23 is tested against
AfterLayoff_FromFront(roster, jo) ==
    SubSeq(roster, Min(LayoffCount(roster, jo), Len(roster)) + 1, Len(roster))
AfterLayoff(roster, jo) == PopN(roster, Min(LayoffCount(roster, jo), Len(roster)))

\* Factory.step of Agents_period.py: adjust_production(); produce()
PeriodFactoryStep ==
    /\ engine = "period"
    /\ At("factory", 0)
    /\ LET newW == (prices[Firm] * 18) \div 10
           first == SoldRatioStep(m_last_month_sales, monthly_production[Firm])
           jo1 == job_offer[Firm] + first
           r1 == IF first < 0 THEN AfterLayoff(workers[Firm], jo1) ELSE workers[Firm]
           raises1 == first < 0 /\ LayoffRaises(workers[Firm], jo1)
           \* inventory_ratio is 10000 once monthly_production has been reset
           jo2 == jo1 - 2
           r2 == AfterLayoff(r1, jo2)
           raises2 == LayoffRaises(r1, jo2)
           newJ == IF ~IsMatchingDay THEN job_offer[Firm]
                   ELSE IF raises1 THEN jo1 ELSE jo2
           newR == IF ~IsMatchingDay THEN workers[Firm]
                   ELSE IF raises1 THEN r1 ELSE r2
           raises == IsMatchingDay /\ (raises1 \/ raises2)
           mp == IF IsMatchingDay THEN 0 ELSE monthly_production[Firm]
           made == ~raises /\ ~Idle(newR)
       IN /\ wage' = [wage EXCEPT ![Firm] = newW]
          /\ job_offer' = [job_offer EXCEPT ![Firm] = newJ]
          /\ workers' = [workers EXCEPT ![Firm] = newR]
          /\ employed' = [w \in Workers |-> employed[w] /\ (InSeq(newR, w) \/ ~InSeq(workers[Firm], w))]
          /\ factory' = [w \in Workers |->
                           IF InSeq(workers[Firm], w) /\ ~InSeq(newR, w) THEN None
                           ELSE factory[w]]
          /\ last_monthly_production' = IF IsMatchingDay
                                        THEN [last_monthly_production EXCEPT
                                                 ![Firm] = monthly_production[Firm]]
                                        ELSE last_monthly_production
          /\ monthly_production' = [monthly_production EXCEPT ![Firm] =
                                      IF made THEN mp + Produced(newR) ELSE mp]
          /\ inventory' = [inventory EXCEPT ![Firm] =
                             IF made THEN @ + Produced(newR) * Scale ELSE @]
          /\ f_wealth' = [f_wealth EXCEPT ![Firm] =
                            IF made THEN @ - ProduceCost(newR, newW, newJ) ELSE @]
          /\ IF raises THEN OneRaise("IndexError") ELSE OneReturn
    /\ UNCHANGED <<home_pos, living, wealth, health, hunger, happiness,
                   last_consumption, consumption_cycle, production, hiring, debt,
                   bankrupt, last_month_sales, mvars, gvars>>

\* Market.update_prices of Agents_perfect.py / Agents_period.py:
\* prices *= 2 when max(0, inventory) is 0, else
\* prices *= 0.95 + 0.05 * last_daily_sales / supply; then the floor
\* min_price = 1
OneRawPrice(p, inv, lds) ==
    LET supply == Max(0, inv)
    IN IF supply = 0 THEN p * 2
       ELSE (p * 95) \div 100 + (p * 5 * lds) \div supply
OneNewPrice(p, inv, lds) == Max(1 * Scale, OneRawPrice(p, inv, lds))

\* Market.step of Agents_period.py
PeriodMarketStep ==
    /\ engine = "period"
    /\ At("market", 0)
    /\ prices' = [prices EXCEPT ![Firm] = OneNewPrice(@, inventory[Firm], last_daily_sales)]
    /\ Snapshot
    /\ OneReturn
    /\ UNCHANGED <<wvars, fvars, demand, gvars>>

\* Government.step of Agents_period.py: intervene has no test at all and
\* never touches last_intervention
PeriodGovStep ==
    /\ engine = "period"
    /\ At("gov", 0)
    /\ inventory' = [inventory EXCEPT ![Firm] = @ \div 100]
    /\ wage' = [wage EXCEPT ![Firm] = 30 * Scale]
    /\ hiring' = [hiring EXCEPT ![Firm] = TRUE]
    /\ prices' = [prices EXCEPT ![Firm] = 20 * Scale]
    /\ job_offer' = [job_offer EXCEPT ![Firm] = 40]
    /\ interventions' = Append(interventions, steps)
    /\ OneReturn
    /\ UNCHANGED <<wvars, production, workers, debt, bankrupt, last_month_sales,
                   f_wealth, monthly_production, last_monthly_production, demand,
                   monthly_sales, daily_sales, m_last_month_sales, last_daily_sales,
                   last_intervention>>

PeriodNext ==
    \/ \E w \in Workers : PeriodChooseFactory(w)
    \/ \E w \in Workers : OneWork(w)
    \/ \E w \in Workers : PeriodConsume(w)
    \/ PeriodFactoryStep
    \/ PeriodMarketStep
    \/ PeriodGovStep
    \/ OneEndDay

SpecPeriod == InitPeriod /\ [][PeriodNext]_vars


\* --------------------------------------------------------- Agents.py
\* Factory.inventory: 0 at construction, and a stock set on the
\* constructed firm (nothing in Agents.py ever changes the inventory)
InventoryInit == {0, 1000 * Scale}
InitAgents ==
    \E inv \in InventoryInit :
        InitOne("agents", 10000 * Scale, 50, 15 * Scale, inv, 5, 50, 0, 50)

\* Worker.step with a consume that gets past its test of self.living and
\* pays the price (Market.sell then raises on model.factories): the variant
\* C13 is tested against
AgentsWorkerStep_Paying(w) ==
    /\ engine = "agents"
    /\ At("choose", w)
    /\ wealth' = [wealth EXCEPT ![w] = @ - prices[Firm]]
    /\ OneRaise("AttributeError")
    /\ UNCHANGED <<home_pos, living, employed, factory, health, hunger, happiness,
                   last_consumption, consumption_cycle, fvars, mvars, gvars>>
\* Worker.step of Agents.py: choose_factory never hires (it ends after the
\* tests), work returns for an unemployed worker, and consume reads
\* self.living, which Worker.__init__ does not set
AgentsWorkerStep(w) ==
    /\ engine = "agents"
    /\ At("choose", w)
    /\ OneRaise("AttributeError")
    /\ UNCHANGED <<wvars, fvars, mvars, gvars>>

\* Factory.step of Agents.py: adjust_production reads self.last_month_sales
\* on a matching day, and check_bankruptcy does not exist
AgentsFactoryStep ==
    /\ engine = "agents"
    /\ At("factory", 0)
    /\ OneRaise("AttributeError")
    /\ UNCHANGED <<wvars, fvars, mvars, gvars>>

\* Market.update_prices of Agents.py: monthly_demand = monthly_sales * 1.2;
\* prices *= 2 when max(0, inventory) is 0, else
\* prices *= 0.8 + 0.4 * monthly_demand / (supply + 1).  Nothing follows
\* the comment that announces the price floor.
AgentsNewPrice(p, inv, ms) ==
    LET supply == Max(0, inv)
    IN IF supply = 0 THEN p * 2
       ELSE (p * 8) \div 10 + (p * 4 * ms * 12 * Scale) \div (100 * (supply + Scale))

\* Market.step of Agents.py: every update_interval = 30 days update_prices,
\* then `self.monthly_sales.copy()` on an int raises
AgentsMarketStep ==
    /\ engine = "agents"
    /\ At("market", 0)
    /\ IF ~IsMatchingDay
       THEN OneReturn /\ UNCHANGED prices
       ELSE /\ prices' = [prices EXCEPT ![Firm] = AgentsNewPrice(@, inventory[Firm], monthly_sales)]
            /\ OneRaise("AttributeError")
    /\ UNCHANGED <<wvars, fvars, demand, monthly_sales, daily_sales,
                   m_last_month_sales, last_daily_sales, gvars>>

AgentsNext ==
    \/ \E w \in Workers : AgentsWorkerStep(w)
    \/ AgentsFactoryStep
    \/ AgentsMarketStep
    \/ CopiedGovStep
    \/ OneEndDay

SpecAgents == InitAgents /\ [][AgentsNext]_vars

\* ------------- Agents_perfect.py and Agents_period.py, the two engines
\* with first-come matching
InitFirstCome == InitPerfect \/ InitPeriod

\* the matching scenario: the first days of the two engines, day 0 being
\* the matching day on which every worker is unemployed and the roster
\* empty
InFirstDays == steps < MatchingDays
MatchingNext ==
    \/ \E w \in Workers : InFirstDays /\ PerfectChooseFactory(w)
    \/ \E w \in Workers : InFirstDays /\ PeriodChooseFactory(w)
    \/ \E w \in Workers : InFirstDays /\ OneWork(w)
    \/ \E w \in Workers : InFirstDays /\ PerfectConsume(w)
    \/ \E w \in Workers : InFirstDays /\ PeriodConsume(w)
    \/ InFirstDays /\ PerfectFactoryStep
    \/ InFirstDays /\ PeriodFactoryStep
    \/ InFirstDays /\ PerfectMarketStep
    \/ InFirstDays /\ PeriodMarketStep
    \/ InFirstDays /\ CopiedGovStep
    \/ InFirstDays /\ PeriodGovStep
    \/ InFirstDays /\ OneEndDay

SpecMatching == InitFirstCome /\ [][MatchingNext]_vars

\* the first days of the two engines for a firm with a single job on
\* offer (job_offer set to 1 on the constructed firm) next to the firms of
\* the matching scenario: in Agents_period.py the adjust_production of day
\* 0 lays off its only worker and produce finds the roster empty
InitSmallFirm ==
    \/ InitFirstCome
    \/ \E w0 \in WealthInit :
          \/ InitOne("perfect", w0, 10, 40 * Scale, 100 * Scale, 1, 3750, 125, 0)
          \/ InitOne("period", w0, 50, 15 * Scale, 100 * Scale, 1, 3750, 125, 0)
SpecSmallFirm == InitSmallFirm /\ [][MatchingNext]_vars

\* ------------- simulate.py, and the first days of Agents_perfect.py: the
\* two engines whose choose_factory returns early off a matching day
InitEarlyReturn == InitSim \/ InitPerfect
EarlyReturnNext ==
    \/ SimStepBegin
    \/ \E f \in SimFactories : SimFactoryStep(f)
    \/ \E w \in Workers : SimChooseFactory(w)
    \/ \E w \in Workers : SimWork(w)
    \/ \E w \in Workers : SimConsume(w)
    \/ SimGovStep
    \/ SimEndDay
    \/ \E w \in Workers : InFirstDays /\ PerfectChooseFactory(w)
    \/ \E w \in Workers : InFirstDays /\ engine = "perfect" /\ OneWork(w)
    \/ \E w \in Workers : InFirstDays /\ PerfectConsume(w)
    \/ InFirstDays /\ PerfectFactoryStep
    \/ InFirstDays /\ PerfectMarketStep
    \/ InFirstDays /\ engine = "perfect" /\ CopiedGovStep
    \/ InFirstDays /\ engine = "perfect" /\ OneEndDay

SpecEarlyReturn == InitEarlyReturn /\ [][EarlyReturnNext]_vars

\* ------------------------------------------------- the four engines
Init == InitSim \/ InitPerfect \/ InitPeriod \/ InitAgents

Next ==
    \/ SimStepBegin
    \/ \E f \in SimFactories : SimFactoryStep(f)
    \/ \E w \in Workers : SimChooseFactory(w)
    \/ \E w \in Workers : SimWork(w)
    \/ \E w \in Workers : SimConsume(w)
    \/ SimGovStep
    \/ SimEndDay
    \/ \E w \in Workers : PerfectChooseFactory(w)
    \/ \E w \in Workers : PeriodChooseFactory(w)
    \/ \E w \in Workers : AgentsWorkerStep(w)
    \/ \E w \in Workers : OneWork(w)
    \/ \E w \in Workers : PerfectConsume(w)
    \/ \E w \in Workers : PeriodConsume(w)
    \/ PerfectFactoryStep
    \/ PeriodFactoryStep
    \/ AgentsFactoryStep
    \/ PerfectMarketStep
    \/ PeriodMarketStep
    \/ AgentsMarketStep
    \/ CopiedGovStep
    \/ PeriodGovStep
    \/ OneEndDay

Spec == Init /\ [][Next]_vars


\* =====================================================================
\* The properties
\* =====================================================================
OnRoster(f, w) == InSeq(workers[f], w)

\* C1: in every reachable state, for every firm the number of workers on
\* its roster is at most its job_offer capacity (Agents_period.py and the
\* multi-firm matching of simulate.py).
\* Refuted in simulate.py: choose_factory never reads job_offer and hiring
\* never changes, so a fourth worker joins a firm with job_offer = 3.
C1_RosterWithinCapacity ==
    engine \in {"period", "simulate"} =>
        \A f \in Factories : Len(workers[f]) <= job_offer[f]

\* C2: in every reachable state, every worker on a firm's roster has
\* employed = True and its factory reference is that firm.
\* Refuted in Agents_perfect.py: an employed worker is appended a second
\* time on a matching day, and the "too rich" exit removes one entry only.
C2_RosterMembersEmployedThere ==
    \A f \in Factories : \A w \in Workers :
        OnRoster(f, w) => employed[w] /\ factory[w] = f

\* C3: in every reachable state and for every worker, employed is True if
\* and only if the worker's factory reference is not None.
\* Refuted: death and bankruptcy (simulate.py) and the "too rich" exit
\* (Agents_perfect.py) clear employed and leave the reference.
C3_EmployedIffFactory ==
    \A w \in Workers : employed[w] <=> factory[w] # None

\* C4: in every reachable state of the single-firm engine
\* (Agents_perfect.py / Agents_period.py) the firm's hiring flag equals
\* (job_offer > len(workers)).
\* Refuted in Agents_perfect.py: the "too rich" exit shortens a full roster
\* and leaves hiring False.
C4_HiringFlag ==
    engine \in {"perfect", "period"} =>
        (hiring[Firm] <=> job_offer[Firm] > Len(workers[Firm]))

\* C5: in simulate.py, once a firm's bankrupt flag is True it is True in
\* every later state; from the transition onward its roster is empty, and
\* no step changes its inventory any more.
C5_BankruptIsTerminal ==
    [][engine = "simulate" =>
          \A f \in Factories :
              /\ bankrupt[f] => bankrupt'[f] /\ inventory'[f] = inventory[f]
              /\ bankrupt'[f] => workers'[f] = <<>>]_vars

\* C5, the case: a firm went bankrupt while it had workers (they still hold
\* the reference to it), and on the matching day that followed a worker ran
\* choose_factory and is employed at another firm
C5_Witness ==
    /\ engine = "simulate"
    /\ \E f \in Factories :
         /\ bankrupt[f]
         /\ \E w \in Workers : factory[w] = f /\ living[w]
         /\ \E w \in Workers : employed[w] /\ factory[w] # f
         /\ IsMatchingDay /\ steps > 0

\* C6: in simulate.py death is absorbing: a worker whose health has reached
\* 0 is not living; once living is False it stays False, and the worker is
\* not employed and is on no firm's roster.
C6_DeathIsAbsorbing ==
    [][engine = "simulate" =>
          \A w \in Workers :
              /\ ~living[w] => ~living'[w]
              /\ health'[w] <= 0 => ~living'[w]
              /\ ~living'[w] => ~employed'[w] /\ \A f \in Factories : ~InSeq(workers'[f], w)]_vars

\* C6, the case: a worker died, and the choose_factory of every worker has
\* run on a later matching day
C6_Witness ==
    /\ engine = "simulate"
    /\ \E w \in Workers : ~living[w] /\ health[w] = 0
    /\ IsMatchingDay /\ steps > 0 /\ At("gov", 0)

C8_InventoryNotNegative ==
    \A f \in Factories : inventory[f] >= 0

\* C9: any two interventions (days on which Government.intervene applies
\* its effects) are at least 60 days apart.
\* Refuted in Agents_period.py: intervene has no cooldown test.
C9_InterventionsSixtyDaysApart ==
    \A i, j \in 1 .. Len(interventions) :
        i < j => interventions[j] - interventions[i] >= 60

\* C10: in simulate.py, in every reachable state each worker is on the
\* roster of at most one firm (a switch removes the worker from the old
\* roster in the same call).
C10_AtMostOneRoster ==
    engine = "simulate" =>
        \A w \in Workers : Cardinality({f \in Factories : OnRoster(f, w)}) <= 1

\* C10, the case: a worker that joined the FOOD firm (the nearest one, on
\* day 0) has switched to another firm and is on that roster
C10_Witness ==
    /\ engine = "simulate"
    /\ \E w \in Workers : \E f \in Factories \ {FOOD} :
         OnRoster(f, w) /\ factory[w] = f /\ ~bankrupt[FOOD] /\ steps >= 30


\* the handlers of one day of CrisisModel.step in which phase a comes
\* after phase b: a position of a in the day's history that follows one of b
Precedes(a, b) ==
    \A j, k \in 1 .. Len(phases) : phases[j] = a /\ phases[k] = b => j < k

\* C11: within each day of CrisisModel.step (simulate.py) the phases occur
\* in the order: employment matching (Worker.choose_factory) before
\* production (Factory.step, which ends in produce), production before the
\* consumption settlement, consumption before the market price update, and
\* the price update before the policy evaluation (Government.intervene).
\* Refuted: the factories are added to the schedule first, so they produce
\* before any worker has chosen; the government is stepped inside
\* schedule.step(), before the settlement and update_prices.
C11_PhaseOrder ==
    engine = "simulate" =>
        /\ Precedes("choose", "factory")
        /\ Precedes("factory", "settlement")
        /\ Precedes("consume", "update_prices")
        /\ Precedes("update_prices", "gov")

\* Worker.consume of Agents_perfect.py / Agents_period.py, what the worker
\* paid for goods in a step of consume: the fall of its wealth beyond the
\* daily subsistence cost (1 in Agents_perfect.py, 2 in Agents_period.py)
SubsistenceCost == IF engine = "perfect" THEN 1 * Scale ELSE 2 * Scale
PaidForGoods(w) == (wealth[w] - SubsistenceCost) - wealth'[w]

\* C12: one successful purchase of q units at price p by Worker.consume
\* (Agents_perfect.py / Agents_period.py), which goes through
\* Market.sell(q), decreases the firm's inventory by exactly q, increases
\* the firm's wealth by exactly q * p (the amount the worker pays), and
\* increases each of market.daily_sales and market.monthly_sales by
\* exactly q.
\* Refuted: consume calls Market.sell(need) and then repeats the four
\* bookings itself, so each of them moves by twice the purchase.
C12_PurchaseBookedOnce ==
    [][(engine \in {"perfect", "period"} /\ pc.ph = "consume"
            /\ PaidForGoods(pc.i) > 0) =>
          LET paid == PaidForGoods(pc.i)
              q == paid \div prices[Firm]
          IN /\ inventory'[Firm] = inventory[Firm] - q * Scale
             /\ f_wealth'[Firm] = f_wealth[Firm] + paid
             /\ daily_sales' = daily_sales + q
             /\ monthly_sales' = monthly_sales + q]_vars

\* the wealth of workers 1 .. n
RECURSIVE SumWealth(_)
SumWealth(n) == IF n = 0 THEN 0 ELSE wealth[n] + SumWealth(n - 1)
\* sum of the workers' wealth plus the firm's wealth
TotalWealth == SumWealth(NumWorkers) + f_wealth[Firm]

FirstMatchingDone == steps = 0 /\ At("work", NumWorkers)
Employed == Cardinality({w \in Workers : employed[w]})

\* C14: scenario for first-come matching (Worker.choose_factory of
\* Agents_perfect.py / Agents_period.py): one hiring firm whose job_offer
\* is 3 (JobOfferScenario) with an empty roster, and more unemployed
\* workers than that (wealth below 900) running choose_factory one after
\* another on a matching day: exactly job_offer workers end employed and
\* on the roster, the others remain unemployed, and the firm's hiring flag
\* is False afterwards.
C14_FirstComeMatching ==
    (engine \in {"perfect", "period"} /\ FirstMatchingDone
        /\ job_offer[Firm] = JobOfferScenario) =>
        /\ Employed = JobOfferScenario
        /\ Len(workers[Firm]) = JobOfferScenario
        /\ \A w \in Workers : employed[w] <=> OnRoster(Firm, w)
        /\ Unemployed = NumWorkers - JobOfferScenario
        /\ ~hiring[Firm]

\* C14, the case: the scenario's firm after the matching of day 0, with a
\* worker that found the firm full
C14_Witness ==
    /\ engine \in {"perfect", "period"} /\ FirstMatchingDone
    /\ job_offer[Firm] = JobOfferScenario
    /\ NumWorkers > JobOfferScenario
    /\ ~employed[NumWorkers] /\ factory[NumWorkers] = None

\* Factory.step of firm f has made it bankrupt: the flag is set, the
\* roster is empty and every worker that was on it is unemployed
Expelled(f) ==
    /\ bankrupt'[f]
    /\ workers'[f] = <<>>
    /\ \A w \in Workers : OnRoster(f, w) => ~employed'[w]

\* C15, as claimed: in simulate.py a solvent firm with production = 10 and
\* debt = 31 * production = 310, with any roster and any inventory, is
\* bankrupt after its next Factory.step (adjust_production, then
\* check_bankruptcy), its roster empty and every expelled worker's employed
\* flag False.
\* Refuted on a matching day: adjust_production raises the debt by 5% and,
\* when the loan is granted, cuts it by 10%, to 292.95, which is not above
\* 30 * 10.
C15_DebtScenarioBankrupts ==
    [][(engine = "simulate" /\ pc.ph = "factory" /\ ~bankrupt[pc.i]
            /\ production[pc.i] = ProductionScenario
            /\ debt[pc.i] = 31 * ProductionScenario * Scale) =>
          Expelled(pc.i)]_vars

\* C15, amended: a solvent firm whose debt is above 30 times its
\* production when check_bankruptcy runs, that is after adjust_production
\* of the same Factory.step, is bankrupt after that step, its roster empty
\* and every expelled worker's employed flag False.
C15_DebtOverThirtyBankrupts ==
    [][(engine = "simulate" /\ pc.ph = "factory" /\ ~bankrupt[pc.i]
            /\ debt'[pc.i] > 30 * production'[pc.i] * Scale) =>
          Expelled(pc.i)]_vars

\* C15, the case: a firm whose debt is above 30 times its production is
\* bankrupt with an empty roster, and a living worker that was expelled
\* from it is unemployed
C15_Witness ==
    /\ engine = "simulate"
    /\ \E f \in Factories :
         /\ bankrupt[f] /\ workers[f] = <<>>
         /\ debt[f] > 30 * production[f] * Scale
         /\ \E w \in Workers : factory[w] = f /\ living[w] /\ ~employed[w]

\* Market.update_prices of simulate.py, the supply of product p that the
\* call at the end of the day sees: the inventory of its solvent factory
\* after the settlement
SupplyAtUpdate(p) == IF bankrupt[p] THEN 0 ELSE inventory[p] - Sold(p)

\* C16: whenever Market.update_prices runs while the supply of a category
\* is 0, the category's price after the update, before the floor, is
\* exactly twice its price before the update (simulate.py, and
\* Agents_perfect.py / Agents_period.py).  The prices are at or above
\* their floors before the update, so twice the price is above the floor
\* and is the price after the call.
\* Refuted in simulate.py: update_prices multiplies by 1.5.
C16_ZeroSupplyDoublesPrice ==
    [][/\ (engine = "simulate" /\ At("end", 0)) =>
             \A p \in ProductType :
                 SupplyAtUpdate(p) = 0 =>
                     /\ SimRawPrice(p, 0, demand[p]) = 2 * prices[p]
                     /\ prices'[p] = 2 * prices[p]
       /\ (engine = "period" /\ At("market", 0) /\ Max(0, inventory[Firm]) = 0) =>
             /\ OneRawPrice(prices[Firm], inventory[Firm], last_daily_sales) = 2 * prices[Firm]
             /\ prices'[Firm] = 2 * prices[Firm]]_vars

\* a run that started from CrisisModel() with the constructor's values (no
\* debt, every worker's health still 100): the scenario values of health
\* and debt never return to these
FromDefaults == debt[FOOD] = 0 /\ \A w \in Workers : health[w] = 100

\* C17: starting from CrisisModel() constructed with its default
\* parameters (simulate.py), every call of CrisisModel.step runs to
\* completion without reaching an error state, for every reachable state
\* and every outcome of the random draws; this includes the end-of-day
\* summary and every purchase branch of Worker.consume.
\* Refuted: print_summary reads self.bank, which is never created, and a
\* non-food purchase ends in `25 * product` on an Enum member.
C17_StepRunsToCompletion ==
    (engine = "simulate" /\ FromDefaults) => error = "none"

\* C18: constructing the simulation with an invalid configuration (a
\* negative worker count N passed to CrisisModel in simulate.py) ends in a
\* configuration error at construction, with no model state created and
\* no day ever stepped; it does not silently yield a model with an empty
\* worker list.
\* Refuted: CrisisModel.__init__ never tests N; range(N) is empty, the
\* constructor returns a model without workers, and the first day runs up
\* to Government.intervene, which divides by len(model.workers).
C18_NegativeCountRejected ==
    (engine = "simulate" /\ num_workers < 0) =>
        /\ error # "none"
        /\ At("begin", 0) /\ phases = <<>> /\ steps = 0

\* Worker.choose_factory of simulate.py gets past its two early returns
\* for worker w: a matching day, a living worker, a candidate firm
Matches(w) == ~SkipsMatching(w) /\ Candidates # <<>>
\* candidate number k has the maximal score for worker w, and no earlier
\* candidate has it
BestCandidate(w, k) ==
    LET m == MaxDistance(w, Candidates)
    IN /\ \A j \in 1 .. Len(Candidates) :
              Score(w, Candidates[j], m) <= Score(w, Candidates[k], m)
       /\ \A j \in 1 .. (k - 1) :
              Score(w, Candidates[j], m) < Score(w, Candidates[k], m)

\* C19: in simulate.py, on a matching day a living worker that runs
\* choose_factory while at least one firm is solvent and hiring ends the
\* call employed at, and on the roster of, the candidate firm with the
\* maximal score wage * (1 - distance / max_distance) * (1 -
\* inventory_ratio); among candidates of maximal score the first in the
\* order of model.factories is chosen.
\* Refuted: a worker whose former firm went bankrupt (its roster was
\* emptied, the worker kept the reference) takes the new firm, then
\* old_factory.workers.remove(self) raises and the append to the new
\* roster is never reached.
C19_JoinsBestCandidate ==
    [][(engine = "simulate" /\ pc.ph = "choose" /\ Matches(pc.i)) =>
          \E k \in 1 .. Len(Candidates) :
              /\ BestCandidate(pc.i, k)
              /\ employed'[pc.i]
              /\ factory'[pc.i] = Candidates[k]
              /\ InSeq(workers'[Candidates[k]], pc.i)]_vars

\* C20: in Agents_perfect.py, whenever an employed worker whose wealth
\* exceeds the affluence threshold (900) runs choose_factory, on any day
\* whether or not it is a matching day, the worker is unemployed and
\* absent from its former employer's roster when the call returns.
\* Refuted: off a matching day choose_factory returns at once for an
\* employed worker, before the test of the wealth; and on a matching day
\* remove drops one of the worker's two entries on the roster.
C20_TooRichLeaves ==
    [][(engine = "perfect" /\ pc.ph = "choose" /\ employed[pc.i]
            /\ wealth[pc.i] > 900 * Scale) =>
          /\ ~employed'[pc.i]
          /\ ~InSeq(workers'[Firm], pc.i)]_vars


\* C21: on a day that is not a matching day (steps % 30 != 0),
\* Worker.choose_factory called for an employed worker is a no-op: the
\* worker's employed flag and factory reference, every firm's roster and
\* every firm's hiring flag are unchanged (simulate.py and
\* Agents_perfect.py).
C21_EmployedOffDayNoOp ==
    [][(engine \in {"simulate", "perfect"} /\ pc.ph = "choose"
            /\ ~IsMatchingDay /\ employed[pc.i]) =>
          UNCHANGED <<employed, factory, workers, hiring>>]_vars

\* C21, the case: on day 1 the choose_factory of a worker employed since
\* day 0 has returned, the firm of Agents_perfect.py still hiring (the
\* joining part would have taken the worker a second time)
C21_Witness ==
    /\ engine = "perfect" /\ pc.ph = "work" /\ ~IsMatchingDay
    /\ employed[pc.i] /\ OnRoster(Firm, pc.i)
    /\ hiring[Firm] /\ wealth[pc.i] <= 900 * Scale

\* Factory.check_bankruptcy of firm f as it runs inside Factory.step: the
\* production and the debt are those adjust_production has just left, the
\* inventory is the one before produce.  inventory_ratio > 2.0 is
\* inventory / (production * 30 + 1e-5) > 2, decided on the hundredths
Overstocked(f) == inventory[f] > 2 * (production'[f] * 30) * Scale
Insolvent(f) ==
    \/ (Overstocked(f) /\ debt'[f] > production'[f] * 15 * Scale)
    \/ debt'[f] > production'[f] * 30 * Scale

\* C22: in simulate.py, Factory.check_bankruptcy on a solvent firm sets
\* bankrupt to True if and only if (inventory_ratio > 2.0 and debt >
\* production * 15) or debt > production * 30; when the condition is false
\* it changes nothing (flag, roster, the workers' employed flags), and on
\* an already bankrupt firm it changes nothing.
C22_BankruptcyCondition ==
    [][(engine = "simulate" /\ pc.ph = "factory") =>
          /\ ~bankrupt[pc.i] => (bankrupt'[pc.i] <=> Insolvent(pc.i))
          /\ (~bankrupt[pc.i] /\ ~Insolvent(pc.i)) =>
                 UNCHANGED <<workers, employed>>
          /\ bankrupt[pc.i] =>
                 bankrupt'[pc.i] /\ UNCHANGED <<workers, employed>>]_vars

\* C22, the case: the FOOD firm has just gone bankrupt through the first
\* clause, overstocked with a debt between 15 and 30 times its production
C22_Witness ==
    /\ engine = "simulate" /\ At("factory", LIGHT_INDUSTRY)
    /\ bankrupt[FOOD]
    /\ inventory[FOOD] > 60 * production[FOOD] * Scale
    /\ debt[FOOD] > 15 * production[FOOD] * Scale
    /\ ~(debt[FOOD] > 30 * production[FOOD] * Scale)

\* Factory.adjust_production has lowered job_offer below the size the
\* roster had: the entries of the old roster past the new job_offer
LaidOff ==
    {workers[Firm][k] : k \in (Max(job_offer'[Firm], 0) + 1) .. Len(workers[Firm])}

\* C23: after a monthly Factory.adjust_production (Agents_period.py /
\* Agents_perfect.py) that lowers job_offer below the roster size, the
\* roster holds exactly job_offer workers, the workers removed are exactly
\* those that were last on the roster, each removed worker has employed ==
\* False and factory == None, and the workers that remain keep their
\* employment state.
C23_LayoffFromTheEnd ==
    [][(engine \in {"perfect", "period"} /\ At("factory", 0) /\ IsMatchingDay
            /\ job_offer'[Firm] < job_offer[Firm]
            /\ job_offer'[Firm] < Len(workers[Firm])) =>
          /\ Len(workers'[Firm]) = job_offer'[Firm]
          /\ workers'[Firm] = SubSeq(workers[Firm], 1, job_offer'[Firm])
          /\ \A w \in LaidOff : ~employed'[w] /\ factory'[w] = None
          /\ \A w \in Workers \ LaidOff :
                 employed'[w] = employed[w] /\ factory'[w] = factory[w]]_vars

\* C23, the case: the adjust_production of day 0 of Agents_period.py has
\* cut the job_offer of the scenario by one; the last worker of the roster
\* is laid off and the first still employed
C23_Witness ==
    /\ engine = "period" /\ steps = 0 /\ At("market", 0)
    /\ job_offer[Firm] = JobOfferScenario - 1
    /\ Len(workers[Firm]) = JobOfferScenario - 1
    /\ ~employed[JobOfferScenario] /\ factory[JobOfferScenario] = None
    /\ employed[1] /\ factory[1] = Firm /\ OnRoster(Firm, 1)

\* C24: in the single-firm engine (Agents_period.py / Agents_perfect.py)
\* the firm's job_offer capacity is never negative in any reachable state,
\* and a monthly layoff in adjust_production never tries to remove more
\* workers than the roster holds (workers.pop() on an empty roster raises
\* IndexError), for any number of consecutive monthly reductions.
C24_CapacityNotNegative ==
    engine \in {"perfect", "period"} =>
        job_offer[Firm] >= 0 /\ error # "IndexError"

\* C24, the case: the second monthly adjust_production in a row (day 0,
\* then day 30) has cut the job_offer of Agents_period.py twice, by the
\* far-below step and by the overstock step, with workers on the roster
C24_Witness ==
    /\ engine = "period" /\ steps = 30 /\ At("market", 0)
    /\ Len(interventions) = 30
    /\ job_offer[Firm] = 40 - 4
    /\ Len(workers[Firm]) > 0

\* Factory.adjust_production of Agents_period.py at the overstock step:
\* the firm's inventory divided by market.last_month_sales is above the
\* threshold 3 (the sales being positive, decided by cross-multiplication)
OverstockThreshold == 3
Overstock == inventory[Firm] > OverstockThreshold * m_last_month_sales * Scale
\* job_offer and the roster as the sold-ratio step of adjust_production
\* leaves them, before the overstock step
JobOfferAfterSoldRatio ==
    job_offer[Firm] + SoldRatioStep(m_last_month_sales, monthly_production[Firm])
RosterAfterSoldRatio ==
    IF SoldRatioStep(m_last_month_sales, monthly_production[Firm]) < 0
    THEN AfterLayoff(workers[Firm], JobOfferAfterSoldRatio)
    ELSE workers[Firm]

\* C25: in Factory.adjust_production (Agents_period.py, threshold 3) the
\* additional overstock capacity cut and layoff happen only when the
\* firm's inventory divided by last month's sales exceeds the threshold;
\* when that ratio is at or below the threshold, the overstock step leaves
\* job_offer and the roster unchanged.
\* Refuted: inventory_ratio returns 10000 whenever monthly_production is 0,
\* and adjust_production has just reset monthly_production to 0, so the
\* overstock step cuts job_offer by 2 on every matching day.
C25_OverstockOnlyAboveThreshold ==
    [][(engine = "period" /\ At("factory", 0) /\ IsMatchingDay
            /\ m_last_month_sales > 0 /\ ~Overstock) =>
          /\ job_offer'[Firm] = JobOfferAfterSoldRatio
          /\ workers'[Firm] = RosterAfterSoldRatio]_vars

\* C26: Factory.produce (Agents_perfect.py / Agents_period.py) called with
\* an empty roster incurs no cost and produces nothing: the firm's wealth,
\* inventory and monthly_production are unchanged.  produce is the last
\* call of Factory.step; in Agents_period.py the adjust_production that
\* precedes it has reset monthly_production on a matching day and may have
\* emptied the roster.
C26_IdleProduceChangesNothing ==
    [][(engine \in {"perfect", "period"} /\ At("factory", 0)
            /\ Len(workers'[Firm]) = 0 /\ error' # "IndexError") =>
          /\ f_wealth'[Firm] = f_wealth[Firm]
          /\ inventory'[Firm] = inventory[Firm]
          /\ monthly_production'[Firm] =
                 (IF engine = "period" /\ IsMatchingDay THEN 0
                  ELSE monthly_production[Firm])]_vars

\* C26, the case: the Factory.step of day 0 of Agents_period.py has laid
\* off the only worker of the firm and produce has run on the empty
\* roster: nothing was paid and nothing was made
C26_Witness ==
    /\ engine = "period" /\ steps = 0 /\ At("market", 0)
    /\ Len(workers[Firm]) = 0 /\ job_offer[Firm] = 0
    /\ f_wealth[Firm] > 0 /\ monthly_production[Firm] = 0
    /\ \A w \in Workers : ~employed[w]

\* Factory.produce as the last call of Factory.step: the roster it reads
\* is the one Factory.step ends with, and floor(0.5 * work_duration) is 4
\* for every entry (Worker.work_duration is 8 from the constructor and
\* after every Worker.work)
OutputOfRoster == 4 * Len(workers'[Firm])
\* monthly_production as adjust_production leaves it to produce
MonthlyBeforeProduce ==
    IF engine = "period" /\ IsMatchingDay THEN 0 ELSE monthly_production[Firm]

\* C27: Factory.produce (Agents_perfect.py / Agents_period.py) called with
\* a non-empty roster adds output = sum over roster entries of
\* floor(0.5 * work_duration) to both inventory and monthly_production,
\* and reduces the firm's wealth by exactly the payroll cost
\* wage * len(workers).
\* Refuted: produce first takes 5 * job_offer + 100 off the firm's wealth,
\* then the wage of every roster entry.
C27_ProducePaysPayrollOnly ==
    [][(engine \in {"perfect", "period"} /\ At("factory", 0)
            /\ Len(workers'[Firm]) > 0 /\ error' # "IndexError") =>
          /\ inventory'[Firm] = inventory[Firm] + OutputOfRoster * Scale
          /\ monthly_production'[Firm] = MonthlyBeforeProduce + OutputOfRoster
          /\ f_wealth'[Firm] =
                 f_wealth[Firm] - wage'[Firm] * Len(workers'[Firm])]_vars

\* C27, amended: produce called with a non-empty roster adds that output
\* to both inventory and monthly_production, and reduces the firm's wealth
\* by the payroll cost wage * len(workers) plus the fixed cost
\* 5 * job_offer + 100.
C27_ProducePaysPayrollAndFixedCost ==
    [][(engine \in {"perfect", "period"} /\ At("factory", 0)
            /\ Len(workers'[Firm]) > 0 /\ error' # "IndexError") =>
          /\ inventory'[Firm] = inventory[Firm] + OutputOfRoster * Scale
          /\ monthly_production'[Firm] = MonthlyBeforeProduce + OutputOfRoster
          /\ f_wealth'[Firm] =
                 f_wealth[Firm] - wage'[Firm] * Len(workers'[Firm])
                     - (5 * job_offer'[Firm] + 100) * Scale]_vars

\* C27, the case: the produce of day 0 has run with the workers hired that
\* day on the roster; their output is the month's production so far
C27_Witness ==
    /\ engine \in {"perfect", "period"} /\ steps = 0 /\ At("market", 0)
    /\ Len(workers[Firm]) > 1
    /\ monthly_production[Firm] = 4 * Len(workers[Firm])
    /\ inventory[Firm] > 100 * Scale

\* Worker.consume of Agents_perfect.py / Agents_period.py, what a purchase
\* that fails for want of funds takes from happiness (the last branch)
FundsFailureDrop == IF engine = "perfect" THEN 1 ELSE 5

\* C28: a failed purchase attempt in Worker.consume (Agents_period.py /
\* Agents_perfect.py) has the same effect on state whichever the cause,
\* insufficient funds or insufficient stock (including the boundary
\* inventory == need): happiness drops by the same amount in both cases
\* (the amount of the insufficient-funds case), and the firm's inventory
\* and wealth, the market sales counters and the worker's wealth after the
\* subsistence deduction are unchanged.
\* Refuted in Agents_period.py: the branch `inventory < need` takes 9 from
\* happiness, the other failures take 5.
C28_FailedPurchaseSameEffect ==
    [][(engine \in {"perfect", "period"} /\ pc.ph = "consume"
            /\ PaidForGoods(pc.i) = 0) =>
          /\ happiness'[pc.i] = happiness[pc.i] - FundsFailureDrop
          /\ wealth'[pc.i] = wealth[pc.i] - SubsistenceCost
          /\ UNCHANGED <<inventory, f_wealth, daily_sales, monthly_sales>>]_vars

\* simulate.py: the units of product p the workers paid for in the
\* Worker.consume calls of the day (every payment is followed by
\* Market.sell(p, 1), and the demand is reset when the day begins), and the
\* units the settlement of the day takes off the inventory of p's firm
UnitsPaidFor(p) == demand[p]
UnitsDeducted(p) == inventory[p] - inventory'[p]

\* C29: in simulate.py a worker is charged for a unit of a category only
\* if that unit is available in stock: on every day and for every
\* category, the number of units workers paid for in Worker.consume equals
\* the number of units deducted from the firm's inventory in the
\* end-of-day settlement (no worker pays when stock is insufficient).
\* Refuted: consume never reads the inventory nor the bankrupt flag; the
\* settlement deducts min(inventory, demand) and skips a bankrupt firm.
C29_PaidUnitsAreDelivered ==
    [][(engine = "simulate" /\ At("end", 0)) =>
          \A p \in ProductType : UnitsPaidFor(p) * Scale = UnitsDeducted(p)]_vars

\* Government.intervene of simulate.py, its two signals, decided exactly.
\* unemployment > 0.2: more than a fifth of model.workers is not employed.
\* avg_inventory > 1.5: the average inventory ratio as intervene computes
\* it, the sum over the solvent firms of inventory / (production * 30 +
\* 1e-5) divided by 3 (the number of firms, a bankrupt firm counting for
\* 0), is above 1.5; that is, the sum of inventory / production is above
\* 135 (whole units; a solvent firm with production 0 and stock has a
\* ratio beyond any threshold)
RatioNum(f) == IF bankrupt[f] THEN 0 ELSE inventory[f] \div Scale
RatioDen(f) == IF bankrupt[f] \/ production[f] = 0 THEN 1 ELSE production[f]
HighUnemployment == 5 * Unemployed > Cardinality(Workers)
HighInventory ==
    \/ \E f \in Factories : ~bankrupt[f] /\ production[f] = 0 /\ inventory[f] > 0
    \/ RatioNum(FOOD) * RatioDen(LIGHT_INDUSTRY) * RatioDen(HEAVY_INDUSTRY)
         + RatioNum(LIGHT_INDUSTRY) * RatioDen(FOOD) * RatioDen(HEAVY_INDUSTRY)
         + RatioNum(HEAVY_INDUSTRY) * RatioDen(FOOD) * RatioDen(LIGHT_INDUSTRY)
       > 135 * RatioDen(FOOD) * RatioDen(LIGHT_INDUSTRY) * RatioDen(HEAVY_INDUSTRY)
\* the call applies the stimulus: every worker gets 500 and the timer is
\* set to the current day
Triggered ==
    /\ last_intervention' = steps
    /\ \A w \in Workers : wealth'[w] = wealth[w] + 500 * Scale

StimulusDays == 28
StimulusNext ==
    \/ steps <= StimulusDays /\ SimStepBegin
    \/ \E f \in SimFactories : SimFactoryStep(f)
    \/ \E w \in Workers : SimChooseFactory(w)
    \/ \E w \in Workers : SimWork(w)
    \/ \E w \in Workers : SimConsume(w)
    \/ SimGovStep
    \/ SimEndDay
SpecStimulus == InitStimulus /\ [][StimulusNext]_vars

\* C31: when Government.intervene of simulate.py triggers, every worker's
\* wealth rises by exactly 500; a solvent HEAVY_INDUSTRY factory gets
\* debt * 0.7 and production int(production * 1.2); the debt and the
\* production of every other factory, the inventory, wage and roster of
\* every factory and the employment state of every worker are unchanged.
Intervenes == engine = "simulate" /\ At("gov", 0) /\ interventions' # interventions
C31_InterventionFrame ==
    [][Intervenes =>
         /\ \A w \in Workers : wealth'[w] = wealth[w] + 500 * Scale
         /\ \A f \in Factories :
               IF f = HEAVY_INDUSTRY /\ ~bankrupt[f]
               THEN /\ debt'[f] = (debt[f] * 7) \div 10
                    /\ production'[f] = (production[f] * 12) \div 10
               ELSE /\ debt'[f] = debt[f]
                    /\ production'[f] = production[f]
         /\ inventory' = inventory
         /\ wage' = wage
         /\ workers' = workers
         /\ employed' = employed
         /\ factory' = factory]_vars
\* an intervention has just relieved an indebted solvent heavy-industry
\* factory while the other factories kept their targets
C31_Witness ==
    /\ engine = "simulate"
    /\ pc.ph = "end"
    /\ Len(interventions) > 0
    /\ interventions[Len(interventions)] = steps
    /\ ~bankrupt[HEAVY_INDUSTRY]
    /\ debt[HEAVY_INDUSTRY] > 0
    /\ \E w \in Workers : ~employed[w]
\* simulate.py and Agents_period.py, the two engines that adjust the
\* wage, the wages next to the ends of the band included
InitWageBand == InitSim \/ InitWageEdge \/ InitPeriod
WageBandNext == SimNext \/ PeriodNext
SpecWageBand == InitWageBand /\ [][WageBandNext]_vars

\* C32: in every reachable state of simulate.py and of Agents_period.py
\* every firm's wage lies within the band [5, 50].
C32_WageWithinBand ==
    \A f \in Factories : wage[f] >= 5 * Scale /\ wage[f] <= 50 * Scale
\* the monthly adjustment has raised a wage of 49 and the band has cut
\* the result (51.45) to 50
C32_Witness ==
    /\ engine = "simulate"
    /\ pc.ph # "begin"
    /\ \E f \in Factories : wage[f] = 50 * Scale
\* C33: in Agents_perfect.py no worker appears more than once on the
\* firm's roster, in any state of any day.
C33_NoDuplicateOnRoster ==
    engine = "perfect" =>
        \A f \in Factories : \A i, j \in DOMAIN workers[f] :
            i # j => workers[f][i] # workers[f][j]
\* simulate.py from the constructor's debt of 0 on every factory
InitDebtFree == InitSim /\ \A f \in SimFactories : debt[f] = 0
SpecDebtFree == InitDebtFree /\ [][SimNext]_vars

\* C34: in simulate.py, from the construction of CrisisModel (debt 0 on
\* every factory), every factory's debt is 0 and no factory is bankrupt in
\* every reachable state.
C34_DebtFreeNeverBankrupt ==
    \A f \in Factories : debt[f] = 0 /\ ~bankrupt[f]
\* day 30 has run its adjust_production and check_bankruptcy on
\* overstocked factories, and Government.intervene has triggered
C34_Witness ==
    /\ engine = "simulate"
    /\ steps = 30
    /\ pc.ph = "end"
    /\ Len(interventions) > 0
    /\ \A f \in Factories : inventory[f] > 60 * production[f] * Scale
\* C35: in simulate.py, from the construction of CrisisModel, every living
\* worker is employed in every state from the end of day 0 on, and the
\* unemployed workers Government.intervene counts are the dead ones.
Dead == {w \in Workers : ~living[w]}
C35_LivingWorkersEmployed ==
    engine = "simulate" =>
        /\ steps >= 1 => \A w \in Workers : living[w] => employed[w]
        /\ At("gov", 0) => Unemployed = Cardinality(Dead)
\* Government.intervene is reached after day 0 with a dead worker and the
\* living ones employed
C35_Witness ==
    /\ engine = "simulate"
    /\ steps >= 1
    /\ At("gov", 0)
    /\ Dead # {}
    /\ \E w \in Workers : living[w] /\ employed[w]
\* simulate.py with workers that start without savings
SpecPoor == InitPoor /\ [][SimNext]_vars

\* C36: in simulate.py every worker's wealth is greater than or equal to
\* 0 in every reachable state.
C36_WealthNotNegative ==
    engine = "simulate" => \A w \in Workers : wealth[w] >= 0
\* a living, hungry worker has just left Worker.consume without buying,
\* its wealth below the price of food
C36_Witness ==
    /\ engine = "simulate"
    /\ \E w \in Workers :
          /\ living[w]
          /\ hunger[w] > 0
          /\ wealth[w] < prices[FOOD]
          /\ pc = SimAfter("consume", w)
\* simulate.py from the constructor's debt of 0, and with the production
\* target of the heavy-industry factory set to 0
InitTargets == InitDebtFree \/ InitZeroTarget
SpecTargets == InitTargets /\ [][SimNext]_vars

\* C37: in simulate.py Factory.step (adjust_production) never raises a
\* factory's production target, and a production target of 0 stays 0
\* through every step, Government.intervene included.
C37_ProductionShrinksZeroAbsorbs ==
    [][engine = "simulate" =>
         \A f \in Factories :
            /\ pc.ph = "factory" => production'[f] <= production[f]
            /\ production[f] = 0 => production'[f] = 0]_vars
\* Government.intervene has just triggered on a solvent heavy-industry
\* factory whose target is 0, after a matching day's adjust_production
C37_Witness ==
    /\ engine = "simulate"
    /\ pc.ph = "end"
    /\ Len(interventions) > 0
    /\ interventions[Len(interventions)] = steps
    /\ ~bankrupt[HEAVY_INDUSTRY]
    /\ production[HEAVY_INDUSTRY] = 0
=============================================================================
